---- MODULE Spec2Model ----
(***************************************************************************)
(* The prediction controller of frontend/src/App.js: the App component's   *)
(* state (useState hooks), the form's onChange handlers and handleSubmit,  *)
(* with the axios requests it issues and the responses that come back.     *)
(***************************************************************************)
EXTENDS Integers, Sequences, FiniteSets

\* How many times the form is submitted in a run.
MaxSubmits == 2
\* How many responses of a run are anything but a well-formed 2xx response.
MaxFaults == 2

-----------------------------------------------------------------------------
(* JavaScript values.                                                      *)

Null == [tag |-> "null"]
Undefined == [tag |-> "undefined"]
NaN == [tag |-> "NaN"]
Num(n) == [tag |-> "number", val |-> n]
IsNum(v) == v.tag = "number"

-----------------------------------------------------------------------------
(* Strings are sequences of one-character strings, so that parsing and     *)
(* formatting are computed character by character.                         *)

DigitChars == <<"0", "1", "2", "3", "4", "5", "6", "7", "8", "9">>
IsDigit(c) == \E d \in 1..10 : DigitChars[d] = c
DigitVal(c) == (CHOOSE d \in 1..10 : DigitChars[d] = c) - 1

RECURSIVE Pow10(_)
Pow10(n) == IF n <= 0 THEN 1 ELSE 10 * Pow10(n - 1)

\* The number of digits of s from position i on.
RECURSIVE DigitRun(_, _)
DigitRun(s, i) ==
    IF i <= Len(s) /\ IsDigit(s[i]) THEN 1 + DigitRun(s, i + 1) ELSE 0

\* The value of the n digits of s from position i on.
RECURSIVE DigitsValue(_, _, _)
DigitsValue(s, i, n) ==
    IF n = 0 THEN 0
    ELSE 10 * DigitsValue(s, i, n - 1) + DigitVal(s[i + n - 1])

\* `${n}` of a template literal, for an integer n.
RECURSIVE NatToString(_)
NatToString(n) ==
    IF n < 10 THEN <<DigitChars[n + 1]>>
    ELSE NatToString(n \div 10) \o <<DigitChars[(n % 10) + 1]>>
NumberToString(n) == IF n < 0 THEN <<"-">> \o NatToString(-n) ELSE NatToString(n)

\* Whether s has one of the characters cs at position i.
HasAt(s, i, cs) == i <= Len(s) /\ s[i] \in cs
SkipAt(s, i, cs) == IF HasAt(s, i, cs) THEN i + 1 ELSE i

\* A run of n digits from position i: how many, their value, what follows.
Run(s, i, n) == [digits |-> n, val |-> DigitsValue(s, i, n), next |-> i + n]
\* The digits at position i.
IntegerAt(s, i) == Run(s, i, DigitRun(s, i))
\* An optional fraction at position i: a point and the digits after it.
FractionAt(s, i) ==
    IF HasAt(s, i, {"."}) THEN Run(s, i + 1, DigitRun(s, i + 1))
    ELSE Run(s, i, 0)
\* An optional exponent at position i: e or E, an optional sign, digits.
ExponentAt(s, i) ==
    IF HasAt(s, i, {"e", "E"})
    THEN IntegerAt(s, SkipAt(s, i + 1, {"-", "+"}))
    ELSE Run(s, i, 0)

\* A decimal numeral [-]digits[.digits][e[+|-]digits] put together from its
\* parts: whether s is one, and its value mant * 10^exp.
Numeral(s, neg, int, frac, exp) ==
    [ok   |-> /\ int.digits + frac.digits >= 1
              /\ HasAt(s, int.next, {"."}) => frac.digits >= 1
              /\ HasAt(s, frac.next, {"e", "E"}) => exp.digits >= 1
              /\ exp.next = Len(s) + 1,
     mant |-> (IF neg THEN -1 ELSE 1)
                 * (int.val * Pow10(frac.digits) + frac.val),
     exp  |-> (IF HasAt(s, frac.next + 1, {"-"}) THEN -exp.val ELSE exp.val)
                 - frac.digits]
WithFraction(s, neg, int, frac) ==
    Numeral(s, neg, int, frac, ExponentAt(s, frac.next))
WithInteger(s, neg, int) == WithFraction(s, neg, int, FractionAt(s, int.next))
ParseNumber(s) ==
    WithInteger(s, HasAt(s, 1, {"-"}), IntegerAt(s, SkipAt(s, 1, {"-"})))

\* Whether the numeral denotes an integer, and that integer.
IsIntegral(p) == p.exp >= 0 \/ p.mant % Pow10(-p.exp) = 0
IntegerOf(p) ==
    IF p.exp >= 0 THEN p.mant * Pow10(p.exp) ELSE p.mant \div Pow10(-p.exp)

\* parseInt(s): an optional sign and the longest run of digits that follows;
\* NaN when there is none. What follows the digits is ignored.
SignedRun(neg, run) ==
    IF run.digits = 0 THEN NaN ELSE Num(IF neg THEN -run.val ELSE run.val)
parseInt(s) ==
    SignedRun(HasAt(s, 1, {"-"}), IntegerAt(s, SkipAt(s, 1, {"-", "+"})))

-----------------------------------------------------------------------------
(* The form (App.js lines 123-159).                                        *)

\* What the user types into a field: a plain integer, an exponent form, a
\* fraction. The fields start empty.
SquareFootageTexts == {<<"1", "2">>, <<"1", "e", "1">>, <<"2", ".", "5">>}
BedroomsTexts == {<<"1">>, <<"2">>}

\* The reference values of handleSubmit (line 75) and their texts in a URL.
squareFootages == <<1000, 1500, 2000, 2500, 3000>>
Refs == DOMAIN squareFootages
RefTexts == [k \in Refs |-> NumberToString(squareFootages[k])]

\* Every text of a run, with what it parses to.
Texts ==
    SquareFootageTexts \cup BedroomsTexts \cup {<<>>}
        \cup {RefTexts[k] : k \in Refs}
NumeralOf == [text \in Texts |-> ParseNumber(text)]
parseIntOf == [text \in Texts |-> parseInt(text)]

\* A field <TextField type="number" required> with no step attribute lets
\* the form submit when it holds a numeral (required: not empty) whose value
\* is a multiple of the default step, 1.
FieldValid(text) ==
    /\ text # <<>>
    /\ NumeralOf[text].ok
    /\ IsIntegral(NumeralOf[text])

\* The value of a text that denotes an integer.
ValueOf ==
    [text \in {t \in Texts : NumeralOf[t].ok /\ IsIntegral(NumeralOf[t])} |->
        IntegerOf(NumeralOf[text])]

-----------------------------------------------------------------------------
(* The remote endpoint GET /predict/{squareFootage}/{bedrooms}.            *)

\* The path parameters of a request URL, as template literals build them.
Url(sf, bd) == [sf |-> sf, bd |-> bd]
NoUrl == Url(<<>>, <<>>)

\* The price the service computes for a request.
Price(url) == 200 * ValueOf[url.sf] + 10000 * ValueOf[url.bd]

\* How a request can end: a 2xx response carrying {predicted_price: number},
\* no response at all, a non-2xx response, a 2xx response whose body is the
\* JSON null, a 2xx response whose body has no predicted_price.
Kinds == {"ok", "network", "status", "nullbody", "nofield"}

\* axios.get rejects when there is no response or its status is not 2xx.
AxiosRejects(kind) == kind \in {"network", "status"}

\* response.data of a fulfilled axios.get.
ResponseData(kind, url) ==
    CASE kind = "ok" -> [tag |-> "object", predicted_price |-> Num(Price(url))]
      [] kind = "nofield" -> [tag |-> "object", predicted_price |-> Undefined]
      [] OTHER -> Null

\* Reading data.predicted_price throws a TypeError when data is null.
ReadThrows(data) == data = Null
\* and otherwise gives the property's value, undefined when it is absent.
ReadPredictedPrice(data) == data.predicted_price

\* Whether `await axios.get(url)` followed by reading
\* response.data.predicted_price throws, for a request that ends as kind.
Throws(kind, url) == AxiosRejects(kind) \/ ReadThrows(ResponseData(kind, url))

-----------------------------------------------------------------------------
(* handleSubmit (App.js lines 63-112).                                     *)

ErrorMessage == "Error predicting price. Please try again."


VARIABLES
    squareFootage,   \* useState(''): the text of the square-footage field
    bedrooms,        \* useState(''): the text of the bedrooms field
    predictedPrice,  \* useState(null)
    error,           \* useState('')
    chartData,       \* useState(null)
    loading,         \* useState(false)
    inv,             \* the invocations of handleSubmit, by number
    nsub,            \* how many invocations there have been
    faults,          \* how many responses were not well-formed 2xx responses
    writer           \* which invocation last set each state field (0: none)

vars == <<squareFootage, bedrooms, predictedPrice, error, chartData, loading,
          inv, nsub, faults, writer>>

SubIds == 1..MaxSubmits

\* A request of an invocation: not issued, pending, or settled the way the
\* promise the handler holds for it settled (for an auxiliary request that is
\* axios.get(...).then(res => res.data.predicted_price)).
NoRequest == [st |-> "none", url |-> NoUrl, val |-> Undefined]
Pending(url) == [st |-> "pending", url |-> url, val |-> Undefined]
Settled(slot, kind) ==
    IF Throws(kind, slot.url)
    THEN [slot EXCEPT !.st = "rejected"]
    ELSE [slot EXCEPT !.st = "fulfilled",
                      !.val = ReadPredictedPrice(ResponseData(kind, slot.url))]
\* A promise nothing will read any more: only whether its request is still
\* outstanding matters.
Dropped(slot) ==
    CASE slot.st = "none" -> slot
      [] slot.st = "pending" -> Pending(NoUrl)
      [] OTHER -> [st |-> "dropped", url |-> NoUrl, val |-> Undefined]

\* An invocation: where it is (pc), the squareFootage and bedrooms of the
\* render its closure was created in, its requests, which auxiliary response
\* settled Promise.all (0: none yet), and how it ended.
NotInvoked ==
    [pc |-> "idle", squareFootage |-> <<>>, bedrooms |-> <<>>,
     primary |-> NoRequest, aux |-> [k \in Refs |-> NoRequest],
     last |-> 0, outcome |-> "none"]

\* A variant: Promise.all still listened to after it has rejected.
ReturnedStillAwaiting(r) == [r EXCEPT !.pc = "awaitAll"]

\* An invocation that has returned keeps its outstanding requests and, when it
\* set the chart data, the two values it was submitted with. One that threw is
\* reduced to that as it returns, one that set the chart data when the form is
\* next submitted.
Returned(r) ==
    [r EXCEPT !.squareFootage =
                  IF r.outcome = "success" THEN r.squareFootage ELSE <<>>,
              !.bedrooms = IF r.outcome = "success" THEN r.bedrooms ELSE <<>>,
              !.primary = Dropped(r.primary),
              !.aux = [k \in Refs |-> Dropped(r.aux[k])],
              !.last = 0]

\* The component's state as a record, and its publication.
State ==
    [predictedPrice |-> predictedPrice, error |-> error,
     chartData |-> chartData, loading |-> loading]
Publish(s) ==
    /\ predictedPrice' = s.predictedPrice
    /\ error' = s.error
    /\ chartData' = s.chartData
    /\ loading' = s.loading

Init ==
    /\ squareFootage = <<>>
    /\ bedrooms = <<>>
    /\ predictedPrice = Null
    /\ error = ""
    /\ chartData = Null
    /\ loading = FALSE
    /\ inv = [i \in SubIds |-> NotInvoked]
    /\ nsub = 0
    /\ faults = 0
    /\ writer = [predictedPrice |-> 0, error |-> 0, chartData |-> 0, loading |-> 0]

\* JavaScript runs a handler to its next await before anything else happens:
\* no event is handled while an invocation is between its first line and its
\* first await.
NoneRunning == \A i \in SubIds : inv[i].pc # "try"

\* onChange of the two fields (lines 132 and 143).
ChangeSquareFootage(text) ==
    /\ NoneRunning
    /\ text # squareFootage
    /\ squareFootage' = text
    /\ UNCHANGED <<bedrooms, predictedPrice, error, chartData, loading, inv,
                   nsub, faults, writer>>

ChangeBedrooms(text) ==
    /\ NoneRunning
    /\ text # bedrooms
    /\ bedrooms' = text
    /\ UNCHANGED <<squareFootage, predictedPrice, error, chartData, loading,
                   inv, nsub, faults, writer>>

\* Variants of the definitions below, each with one slip in it: the
\* properties further down tell them from the originals.
StartStateKeepPrice(s) == [s EXCEPT !.error = "", !.loading = TRUE]
ChartStateKept(s, data) == s
\* The highlighted points of the chart accumulated over the submissions.
ChartStateAccumulated(s, data) ==
    [s EXCEPT !.chartData =
        IF s.chartData = Null THEN data
        ELSE [data EXCEPT !.highlight = s.chartData.highlight \o data.highlight]]
CatchStateSilent(s) == s
FinallyStateKept(s) == s

\* Lines 65-67: setError(''); setPredictedPrice(null); setLoading(true).
StartState(s) ==
    [s EXCEPT !.error = "", !.predictedPrice = Null, !.loading = TRUE]
\* Line 72: setPredictedPrice(response.data.predicted_price).
PriceState(s, price) == [s EXCEPT !.predictedPrice = price]
\* Line 105: setChartData(newChartData).
ChartState(s, data) == [s EXCEPT !.chartData = data]
\* Line 107: setError(...) of the catch block.
CatchState(s) == [s EXCEPT !.error = ErrorMessage]
\* Line 110: setLoading(false) of the finally block.
FinallyState(s) == [s EXCEPT !.loading = FALSE]

\* Lines 64-67: the handler is entered, for the form as it is rendered.
HandleSubmit(i) ==
    /\ NoneRunning
    /\ i = nsub + 1
    /\ i \in SubIds
    /\ FieldValid(squareFootage)
    /\ FieldValid(bedrooms)
    /\ nsub' = i
    /\ Publish(StartState(State))
    /\ inv' = [j \in SubIds |->
                 IF j = i
                 THEN [NotInvoked EXCEPT !.pc = "try",
                                         !.squareFootage = squareFootage,
                                         !.bedrooms = bedrooms]
                 ELSE IF inv[j].pc = "done" THEN Returned(inv[j]) ELSE inv[j]]
    /\ writer' = [writer EXCEPT !.predictedPrice = i, !.error = i, !.loading = i]
    /\ UNCHANGED <<squareFootage, bedrooms, faults>>

\* A variant: the button never disabled.
ButtonNeverDisabled == TRUE
\* A variant: the button also disabled while an error is shown.
ButtonEnabledNoError == ~loading /\ error = ""

\* Line 153: the submit button is disabled while loading, and a form whose
\* submit button is disabled is not submitted.
ButtonEnabled == ~loading

\* The user submits the form.
Submit == ButtonEnabled /\ HandleSubmit(nsub + 1)

\* A variant: all six requests issued at once.
IssuePrimaryWithAux(i) ==
    /\ inv[i].pc = "try"
    /\ inv' = [inv EXCEPT ![i].pc = "awaitPrimary",
                          ![i].primary =
                              Pending(Url(inv[i].squareFootage, inv[i].bedrooms)),
                          ![i].aux =
                              [k \in Refs |->
                                  Pending(Url(RefTexts[k], inv[i].bedrooms))]]
    /\ UNCHANGED <<squareFootage, bedrooms, predictedPrice, error, chartData,
                   loading, nsub, faults, writer>>

\* Line 71: the primary request is issued and the handler awaits it.
IssuePrimary(i) ==
    /\ inv[i].pc = "try"
    /\ inv' = [inv EXCEPT ![i].pc = "awaitPrimary",
                          ![i].primary =
                              Pending(Url(inv[i].squareFootage, inv[i].bedrooms))]
    /\ UNCHANGED <<squareFootage, bedrooms, predictedPrice, error, chartData,
                   loading, nsub, faults, writer>>

\* A variant: the auxiliary requests issued whatever the primary request did.
AuxRequestsAlways(threw, bd) == [k \in Refs |-> Pending(Url(RefTexts[k], bd))]

\* A variant: the auxiliary requests made for the bedrooms the form holds when
\* they are issued.
AuxRequestsOfForm(threw, bd) ==
    [k \in Refs |->
        IF threw THEN NoRequest
        ELSE Pending(Url(RefTexts[k], bedrooms))]

\* Lines 77-78: the auxiliary requests, issued when line 72 did not throw.
AuxRequests(threw, bd) ==
    [k \in Refs |->
        IF threw THEN NoRequest
        ELSE Pending(Url(RefTexts[k], bd))]

\* A fault uses up the run's budget of faults.
CountFault(kind) ==
    /\ kind # "ok" => faults < MaxFaults
    /\ faults' = IF kind = "ok" THEN faults ELSE faults + 1

\* Lines 71-81 and 106-111: the primary request ends. When nothing throws, the
\* price is set and the five auxiliary requests are issued; otherwise the
\* catch and finally blocks run.
PrimaryResponse(i, kind) ==
    /\ inv[i].pc = "awaitPrimary"
    /\ NoneRunning
    /\ CountFault(kind)
    /\ LET slot  == Settled(inv[i].primary, kind)
           threw == slot.st = "rejected"
           next  == [inv[i] EXCEPT
                        !.primary = slot,
                        !.aux = AuxRequests(threw, inv[i].bedrooms),
                        !.pc = IF threw THEN "done" ELSE "awaitAll",
                        !.outcome = IF threw THEN "primaryFailed" ELSE "none"]
       IN  /\ inv' = [inv EXCEPT ![i] = IF threw THEN Returned(next) ELSE next]
           /\ IF threw
              THEN /\ Publish(FinallyState(CatchState(State)))
                   /\ writer' = [writer EXCEPT !.error = i, !.loading = i]
              ELSE /\ Publish(PriceState(State, slot.val))
                   /\ writer' = [writer EXCEPT !.predictedPrice = i]
    /\ UNCHANGED <<squareFootage, bedrooms, nsub>>

\* A variant: the value that arrived last put last, as pushing each value on
\* arrival would.
PredictionsByArrival(aux, last) ==
    [k \in Refs |->
        IF k < last THEN aux[k].val
        ELSE IF k < Len(squareFootages) THEN aux[k + 1].val
        ELSE aux[last].val]

\* Lines 76-81: what Promise.all fulfils with, the values by request index.
Predictions(aux, last) == [k \in Refs |-> aux[k].val]

\* Lines 84-104: labels, the 'Predicted Prices' data and the 'Your
\* Prediction' data.
NewChartData(predictions, sf, price) ==
    [tag |-> "object",
     labels |-> squareFootages,
     predictions |-> predictions,
     highlight |-> <<[x |-> parseIntOf[sf], y |-> price]>>]

\* Lines 76-111: an auxiliary request ends. Promise.all rejects with the first
\* rejection and fulfils when all five are fulfilled; once it is settled (the
\* handler is done) later responses settle their own promise and nothing else.
AuxResponse(i, k, kind) ==
    /\ inv[i].aux[k].st = "pending"
    /\ NoneRunning
    /\ CountFault(kind)
    /\ LET slot  == Settled(inv[i].aux[k], kind)
           aux   == [inv[i].aux EXCEPT ![k] = slot]
           all   == \A j \in Refs : aux[j].st = "fulfilled"
       IN  CASE inv[i].pc = "done" ->
                  /\ inv' = [inv EXCEPT ![i].aux[k].st = "dropped"]
                  /\ UNCHANGED <<predictedPrice, error, chartData, loading, writer>>
             [] inv[i].pc = "awaitAll" /\ slot.st = "rejected" ->
                  /\ inv' = [inv EXCEPT ![i] =
                        Returned([inv[i] EXCEPT !.aux = aux, !.pc = "done",
                                                !.outcome = "auxFailed"])]
                  /\ Publish(FinallyState(CatchState(State)))
                  /\ writer' = [writer EXCEPT !.error = i, !.loading = i]
             [] inv[i].pc = "awaitAll" /\ slot.st = "fulfilled" /\ all ->
                  /\ inv' = [inv EXCEPT ![i].aux = aux, ![i].last = k,
                                        ![i].pc = "done",
                                        ![i].outcome = "success"]
                  /\ Publish(FinallyState(ChartState(State,
                        NewChartData(Predictions(aux, k),
                                     inv[i].squareFootage, inv[i].primary.val))))
                  /\ writer' = [writer EXCEPT !.chartData = i, !.loading = i]
             [] inv[i].pc = "awaitAll" /\ slot.st = "fulfilled" /\ ~all ->
                  /\ inv' = [inv EXCEPT ![i].aux = aux]
                  /\ UNCHANGED <<predictedPrice, error, chartData, loading, writer>>
    /\ UNCHANGED <<squareFootage, bedrooms, nsub>>

\* A variant: a timer that gives up on an invocation whose requests are
\* still outstanding.
Timeout(i) ==
    /\ inv[i].pc \in {"awaitPrimary", "awaitAll"}
    /\ NoneRunning
    /\ inv' = [inv EXCEPT ![i] =
                  Returned([inv[i] EXCEPT !.pc = "done", !.outcome = "timedOut"])]
    /\ Publish(FinallyState(CatchState(State)))
    /\ writer' = [writer EXCEPT !.error = i, !.loading = i]
    /\ UNCHANGED <<squareFootage, bedrooms, nsub, faults>>
NextWithTimeout ==
    \/ \E text \in SquareFootageTexts : ChangeSquareFootage(text)
    \/ \E text \in BedroomsTexts : ChangeBedrooms(text)
    \/ ButtonEnabled /\ HandleSubmit(nsub + 1)
    \/ \E i \in SubIds : IssuePrimary(i)
    \/ \E i \in SubIds, kind \in Kinds : PrimaryResponse(i, kind)
    \/ \E i \in SubIds, k \in Refs, kind \in Kinds : AuxResponse(i, k, kind)
    \/ \E i \in SubIds : Timeout(i)

Next ==
    \/ \E text \in SquareFootageTexts : ChangeSquareFootage(text)
    \/ \E text \in BedroomsTexts : ChangeBedrooms(text)
    \/ Submit
    \/ \E i \in SubIds : IssuePrimary(i)
    \/ \E i \in SubIds, kind \in Kinds : PrimaryResponse(i, kind)
    \/ \E i \in SubIds, k \in Refs, kind \in Kinds : AuxResponse(i, k, kind)

Spec == Init /\ [][Next]_vars

\* Every request that was issued ends, and a handler that was entered runs to
\* its first await.
Respond ==
    \/ \E i \in SubIds, kind \in Kinds : PrimaryResponse(i, kind)
    \/ \E i \in SubIds, k \in Refs, kind \in Kinds : AuxResponse(i, k, kind)
FairSpec ==
    /\ Spec
    /\ WF_vars(Respond)
    /\ WF_vars(\E i \in SubIds : IssuePrimary(i))

\* A variant: the handler returning at once while a submission is in flight.
OnSubmitWhenIdle == ~loading /\ HandleSubmit(nsub + 1)

\* Line 123: the form's submit event runs handleSubmit. The handler itself
\* looks at no state before it starts, so whatever dispatches the event while
\* a submission is in flight (the button is not the only way to submit a
\* form) starts a second invocation next to the first.
OnSubmit == HandleSubmit(nsub + 1)

\* What the requests of overlapping invocations end with: a well-formed
\* response or no response.
HandlerKinds == {"ok", "network"}

HandlerNext ==
    \/ \E text \in SquareFootageTexts : ChangeSquareFootage(text)
    \/ \E text \in BedroomsTexts : ChangeBedrooms(text)
    \/ OnSubmit
    \/ \E i \in SubIds : IssuePrimary(i)
    \/ \E i \in SubIds, kind \in HandlerKinds : PrimaryResponse(i, kind)
    \/ \E i \in SubIds, k \in Refs, kind \in HandlerKinds : AuxResponse(i, k, kind)

\* The handler without the button in front of it.
HandlerSpec == Init /\ [][HandlerNext]_vars

-----------------------------------------------------------------------------
(* The states of the controller, and what an invocation has seen.          *)

Failure == ~loading /\ error = ErrorMessage
InFlight(i) == inv[i].pc \in {"try", "awaitPrimary", "awaitAll"}
Completed(i) == inv[i].pc = "done"
\* The invocation set the chart data and its closure is still there.
Succeeded(i) == inv[i].outcome = "success" /\ inv[i].last # 0
\* All six responses of the invocation were well-formed 2xx responses.
AllOk(i) ==
    /\ Succeeded(i)
    /\ IsNum(inv[i].primary.val)
    /\ \A k \in Refs : IsNum(inv[i].aux[k].val)
NoRequestIssued(i) ==
    /\ inv[i].primary.st = "none"
    /\ \A k \in Refs : inv[i].aux[k].st = "none"

-----------------------------------------------------------------------------
(* Properties.                                                             *)

\* C1: whenever a submission has completed, either the error is empty and the
\* price and series of that submission are set, or the error is set and no
\* price and no series of that submission is published.
C1_ExactlyOneOfSuccessOrFailure ==
    \A i \in SubIds :
        (i = nsub /\ Completed(i)) =>
            \/ /\ error = ""
               /\ predictedPrice # Null /\ writer.predictedPrice = i
               /\ chartData # Null /\ writer.chartData = i
            \/ /\ error # ""
               /\ predictedPrice = Null
               /\ writer.chartData # i

\* C2: when the primary request fails, no auxiliary request is ever issued
\* for that submission, and the submission ends with the error message set,
\* loading false and the predicted price null.
C2_PrimaryFailureShortCircuits ==
    \A i \in SubIds :
        inv[i].outcome = "primaryFailed" =>
            /\ \A k \in Refs : inv[i].aux[k].st = "none"
            /\ Completed(i)
            /\ i = nsub => Failure /\ predictedPrice = Null
C2_Witness ==
    \E i \in SubIds : i = nsub /\ inv[i].outcome = "primaryFailed"

\* C3: when the primary request succeeds and an auxiliary request fails, the
\* submission ends in Failure, with the error message set and no series of
\* that submission published, whatever the other four requests do.
C3_AuxFailureFailsAll ==
    \A i \in SubIds :
        inv[i].outcome = "auxFailed" =>
            /\ Completed(i)
            /\ writer.chartData # i
            /\ i = nsub => Failure
\* One auxiliary request failed, the other four ended well and after it.
C3_Witness ==
    \E i \in SubIds :
        /\ i = nsub /\ nsub = 1 /\ faults = 1
        /\ inv[i].outcome = "auxFailed"
        /\ \A k \in Refs : inv[i].aux[k].st = "dropped"

\* C4: the published series holds at position k the price returned for the
\* k-th reference value, whichever response came last.
C4_SeriesByRequestIndex ==
    \A i \in SubIds :
        Succeeded(i) =>
            /\ chartData # Null
            /\ chartData.labels = squareFootages
            /\ \A k \in Refs :
                  /\ inv[i].aux[k].url = Url(RefTexts[k], inv[i].bedrooms)
                  /\ chartData.predictions[k] = inv[i].aux[k].val
                  /\ IsNum(chartData.predictions[k]) =>
                        chartData.predictions[k].val =
                            200 * squareFootages[k]
                                + 10000 * ValueOf[inv[i].bedrooms]
\* The response for the first reference value came last, after the others.
C4_Witness ==
    \E i \in SubIds : AllOk(i) /\ inv[i].last = 1

\* C5: when all six requests of a submission succeed, the submission is
\* Loading until it completes and then is in Success, with five reference
\* points and one highlighted point; a submission only fails after a fault.
C5_AllOkEndsInSuccess ==
    \A i \in SubIds :
        /\ (i = nsub /\ InFlight(i)) => loading /\ error = ""
        /\ (i = nsub /\ AllOk(i)) =>
              /\ ~loading /\ error = ""
              /\ IsNum(predictedPrice)
              /\ chartData # Null
              /\ DOMAIN chartData.predictions = 1..5
              /\ DOMAIN chartData.labels = 1..5
              /\ Len(chartData.highlight) = 1
        /\ inv[i].outcome \in {"primaryFailed", "auxFailed"} => faults >= 1
C5_Witness ==
    \E i \in SubIds : i = nsub /\ AllOk(i) /\ chartData # Null /\ ~loading

\* C6: every failure of a request of a submission (no response, a non-2xx
\* response, a 2xx response with no numeric predicted_price) ends the
\* submission in Failure, and none ends in Success.
C6_EveryFaultEndsInFailure ==
    \A i \in SubIds :
        (i = nsub /\ Completed(i) /\ ~AllOk(i)) => Failure

\* C7: having run lines 64-67 and before it issues any request, a submission
\* has set loading and cleared the error and the predicted price, whatever
\* the state it was submitted in.
C7_SubmitClearsSynchronously ==
    \A i \in SubIds :
        inv[i].pc = "try" =>
            /\ loading /\ error = "" /\ predictedPrice = Null
            /\ NoRequestIssued(i)
\* A submission made from a state with a price and a chart.
C7_Witness ==
    /\ nsub = 2 /\ inv[2].pc = "try"
    /\ inv[1].outcome = "success" /\ chartData # Null

\* C8: when every request that is issued ends, loading becomes false again,
\* on the success path and on every failure path.
C8_LoadingEnds == loading ~> ~loading
C8_Witness ==
    \E i \in SubIds : i = nsub /\ inv[i].outcome = "auxFailed" /\ ~loading

\* C9 as stated: in every state, Loading included, a submit is accepted.
C9_SubmitAcceptedInEveryState ==
    (FieldValid(squareFootage) /\ FieldValid(bedrooms) /\ NoneRunning
        /\ nsub < MaxSubmits) => ENABLED Submit
\* C9 as amended: from Idle, Success and Failure a submit of a valid form is
\* accepted and leads to Loading; while loading none is.
C9_SubmitAcceptedUnlessLoading ==
    /\ [](/\ (~loading /\ FieldValid(squareFootage) /\ FieldValid(bedrooms)
                /\ NoneRunning /\ nsub < MaxSubmits) => ENABLED Submit
          /\ loading => ~ENABLED Submit)
    /\ [][nsub' # nsub => ~loading /\ loading' /\ inv'[nsub'].pc = "try"]_vars
\* A submission made right after a Failure.
C9_Witness ==
    /\ nsub = 2 /\ loading
    /\ inv[1].outcome \in {"primaryFailed", "auxFailed"}

\* C10: on full success the highlighted point is at the square footage that
\* was sent in the primary request and at the price the primary request
\* returned, which is the published price.
C10_HighlightIsSubmittedPoint ==
    \A i \in SubIds :
        AllOk(i) =>
            /\ chartData.highlight[1].x = Num(ValueOf[inv[i].primary.url.sf])
            /\ chartData.highlight[1].y = inv[i].primary.val
            /\ predictedPrice = inv[i].primary.val

\* The invocation completes in this step, by setting the chart data.
Succeeds(i) == inv[i].pc = "awaitAll" /\ inv'[i].outcome = "success"
\* The chart data shown were set by an earlier invocation that was submitted
\* with the same two values as invocation i.
RepeatsSuccess(i) ==
    \E j \in SubIds :
        /\ j # i /\ writer.chartData = j /\ chartData # Null
        /\ inv[j].outcome = "success"
        /\ inv[j].squareFootage = inv[i].squareFootage
        /\ inv[j].bedrooms = inv[i].bedrooms
\* The chart data hold numbers only: every response they were built from was
\* well-formed.
AllNumbers(data) ==
    /\ IsNum(data.highlight[1].y)
    /\ \A k \in Refs : IsNum(data.predictions[k])

\* C11: a submission that succeeds after an earlier success with the same
\* two values leaves a chart of the same shape (the five reference labels,
\* five prices, one highlighted point at the same x); when all responses of
\* both were well-formed the chart is the same chart and the price is the
\* price of before.
C11_ResubmitIsIdempotent ==
    [][\A i \in SubIds :
          (Succeeds(i) /\ RepeatsSuccess(i)) =>
              /\ chartData'.labels = chartData.labels
              /\ DOMAIN chartData'.predictions = DOMAIN chartData.predictions
              /\ Len(chartData'.highlight) = 1
              /\ Len(chartData.highlight) = 1
              /\ chartData'.highlight[1].x = chartData.highlight[1].x
              /\ (AllNumbers(chartData) /\ AllNumbers(chartData')) =>
                    /\ chartData' = chartData
                    /\ predictedPrice' = chartData.highlight[1].y]_vars
\* The same two values submitted twice, every response well-formed.
C11_Witness ==
    /\ nsub = 2 /\ faults = 0 /\ AllOk(2) /\ writer.chartData = 2
    /\ inv[1].outcome = "success"
    /\ inv[1].squareFootage = inv[2].squareFootage
    /\ inv[1].bedrooms = inv[2].bedrooms

C13_PublishedFromOneSubmission ==
    /\ (predictedPrice # Null /\ chartData # Null) =>
          writer.predictedPrice = writer.chartData
    /\ (error # "" /\ chartData # Null) => writer.error = writer.chartData
    /\ (error # "" /\ predictedPrice # Null) =>
          writer.error = writer.predictedPrice
    /\ predictedPrice # Null =>
          inv[writer.predictedPrice].outcome = "success"

\* C14: within an invocation no auxiliary request is issued before the
\* primary response is there, so the primary request is never outstanding
\* together with an auxiliary one; the five auxiliary requests are issued
\* together, in the step that receives the primary response and before any
\* of their responses.
C14_PrimaryPrecedesAux ==
    /\ [](\A i \in SubIds :
            /\ inv[i].primary.st \in {"none", "pending"} =>
                  \A k \in Refs : inv[i].aux[k].st = "none"
            /\ (\E k \in Refs : inv[i].aux[k].st # "none") =>
                  /\ \A k \in Refs : inv[i].aux[k].st # "none"
                  /\ inv[i].primary.st \in {"fulfilled", "dropped"})
    /\ [][\A i \in SubIds, k \in Refs :
            (inv[i].aux[k].st = "none" /\ inv'[i].aux[k].st # "none") =>
                /\ inv[i].primary.st = "pending"
                /\ inv'[i].primary.st = "fulfilled"
                /\ \A j \in Refs : inv'[i].aux[j].st = "pending"]_vars
\* The primary response is there and the five auxiliary requests are out.
C14_Witness ==
    \E i \in SubIds :
        /\ i = nsub /\ inv[i].pc = "awaitAll"
        /\ inv[i].primary.st = "fulfilled"
        /\ \A k \in Refs : inv[i].aux[k].st = "pending"

\* How many requests the invocation has issued.
RequestsIssued(i) ==
    (IF inv[i].primary.st = "none" THEN 0 ELSE 1)
        + Cardinality({k \in Refs : inv[i].aux[k].st # "none"})

\* C15: an invocation whose primary request succeeded has issued five
\* auxiliary requests, the k-th for the k-th of 1000, 1500, 2000, 2500, 3000
\* and for the bedrooms the primary request was made for; that makes six
\* requests, and no invocation issues more.
C15_FiveAuxRequests ==
    \A i \in SubIds :
        /\ RequestsIssued(i) <= 6
        /\ inv[i].outcome \in {"success", "auxFailed"} => RequestsIssued(i) = 6
        /\ (inv[i].pc = "awaitAll" \/ Succeeded(i)) =>
              /\ RequestsIssued(i) = 6
              /\ \A k \in Refs :
                    /\ ValueOf[inv[i].aux[k].url.sf] = squareFootages[k]
                    /\ inv[i].aux[k].url.bd = inv[i].primary.url.bd
\* The bedrooms field was changed while the primary request was outstanding.
C15_Witness ==
    \E i \in SubIds :
        /\ i = nsub /\ inv[i].pc = "awaitAll" /\ IsNum(inv[i].primary.val)
        /\ bedrooms # inv[i].bedrooms

\* A request of the invocation is outstanding and the handler awaits it.
Awaiting(i) ==
    \/ inv[i].pc = "awaitPrimary" /\ inv[i].primary.st = "pending"
    \/ inv[i].pc = "awaitAll" /\ \E k \in Refs : inv[i].aux[k].st = "pending"
\* A request of the invocation ends in this step.
Responds(i) ==
    \/ inv[i].primary.st = "pending" /\ inv'[i].primary.st # "pending"
    \/ \E k \in Refs :
          inv[i].aux[k].st = "pending" /\ inv'[i].aux[k].st # "pending"

\* C16: nothing but a response ends a submission. While a request the
\* handler awaits is outstanding (no auxiliary request having failed) the
\* controller is Loading with no error, and a step in which no request of
\* the submission ends leaves loading, error, price and series as they are:
\* when the response never comes, it is Loading for ever.
C16_NoTimeout ==
    /\ [](\A i \in SubIds :
            (i = nsub /\ InFlight(i)) =>
                /\ Awaiting(i) \/ inv[i].pc = "try"
                /\ loading /\ error = "" /\ inv[i].outcome = "none")
    /\ [][\A i \in SubIds :
            (i = nsub /\ InFlight(i) /\ ~Responds(i)) =>
                /\ InFlight(i)'
                /\ UNCHANGED <<predictedPrice, error, chartData, loading>>]_vars
\* Four auxiliary responses are there and the fifth is outstanding.
C16_Witness ==
    \E i \in SubIds :
        /\ i = nsub /\ inv[i].pc = "awaitAll" /\ loading
        /\ Cardinality({k \in Refs : inv[i].aux[k].st = "pending"}) = 1
        /\ Cardinality({k \in Refs : inv[i].aux[k].st = "fulfilled"}) = 4

Fields == {"predictedPrice", "error", "chartData", "loading"}

\* C17: with the submit button disabled while loading, at most one
\* invocation of the handler is in flight, it is the latest one, and whenever
\* a published field is set it is set by the latest submission: no older
\* invocation writes over a newer one.
C17_ButtonGuardExcludesRace ==
    /\ [](/\ Cardinality({i \in SubIds : InFlight(i)}) <= 1
          /\ \A i \in SubIds : InFlight(i) => i = nsub /\ loading)
    /\ [][\A f \in Fields :
            (State'[f] # State[f] \/ writer'[f] # writer[f]) =>
                writer'[f] = nsub']_vars
\* The second submission has succeeded while a request of the first, which
\* had failed, is still outstanding.
C17_Witness ==
    /\ nsub = 2 /\ AllOk(2) /\ ~loading
    /\ inv[1].outcome = "auxFailed"
    /\ \E k \in Refs : inv[1].aux[k].st = "pending"
    /\ \A f \in Fields : writer[f] = 2

\* A request left over by invocation i, which failed on an auxiliary request,
\* ends in this step.
LateResponse(i) ==
    /\ inv[i].outcome = "auxFailed"
    /\ \E k \in Refs :
          inv[i].aux[k].st = "pending" /\ inv'[i].aux[k].st # "pending"

\* C18: after a submission has failed on an auxiliary request, the responses
\* of its auxiliary requests still outstanding, good or bad, change neither
\* price, series, error nor loading, also when the form has been submitted
\* again in between.
C18_LateResponsesChangeNothing ==
    [][\A i \in SubIds :
          LateResponse(i) =>
              /\ UNCHANGED <<predictedPrice, error, chartData, loading, writer>>
              /\ inv'[i].outcome = "auxFailed" /\ Completed(i)']_vars
\* After the failure of an auxiliary request the other four have ended, one
\* of them by failing too.
C18_Witness ==
    \E i \in SubIds :
        /\ i = nsub /\ faults = 2 /\ Failure
        /\ inv[i].outcome = "auxFailed"
        /\ \A k \in Refs : inv[i].aux[k].st = "dropped"

\* C19: whenever a price and chart data are both published, the highlighted
\* point of the chart is at the published price.
C19_HighlightAtPublishedPrice ==
    (predictedPrice # Null /\ chartData # Null) =>
        chartData.highlight[1].y = predictedPrice

====
